---- MODULE Spec2Model ----
(***************************************************************************)
(* The training loop of train.py (function training) as a state machine:   *)
(* one action per step of an iteration, in the order of the source, with   *)
(* the gate of utils/prune_utils.py and the parameter groups of            *)
(* arguments/__init__.py.  The Gaussian model, the renderer and the viewer *)
(* transport are collaborators whose code is outside src/; their calls are *)
(* recorded in `calls` and their effects are modelled from the             *)
(* specification.                                                          *)
(***************************************************************************)
EXTENDS Integers, Sequences, FiniteSets, TLC

VARIABLES
    opt,            \* optimisation record handed to training()
    scene,          \* environment of the run: cameras, viewer clients to come
    prune,          \* prune record: prune_iterations, use_mask (mutable)
    dataset,        \* model record: white_background, opacity_activation
    pipe,           \* pipeline record, overwritten by viewer messages
    checkpoint_iterations,
    first_iter,     \* iteration number loaded from the start checkpoint, or 0
    iteration,      \* the loop variable of train.py:78
    pc,             \* position inside the loop body
    conn,           \* network_gui.conn /= None
    viewpoint_stack,\* working list of training cameras (<<>> also for None)
    viewpoint_cam,  \* camera picked for this iteration (0 before the pick)
    picked,         \* cameras picked since the working list was last refilled
    points,         \* number of points of the Gaussian model
    grad_sum,       \* xyz_gradient_accum, one entry per point
    count,          \* denom, one entry per point
    max_radii2D,    \* one entry per point
    opacity_activation,         \* gaussians.opacity_activation
    inverse_opacity_activation, \* gaussians.inverse_opacity_activation
    gaussians_use_mask,         \* gaussians.use_mask
    active_sh_degree,
    size_threshold, \* local of train.py:157, <<>> for None
    last_render,    \* arguments of the most recent render() call
    optimizer_steps,\* number of optimizer.step() calls of the run
    grads,          \* TRUE between backward() and zero_grad()
    calls,          \* collaborator calls made so far in this iteration, in order
    stdout,         \* lines printed by training(), as <<text, iteration>>
    saved,          \* checkpoints written: <<iteration, points>>
    resets,         \* iterations of the run in which reset_opacity() was called
    exchange,       \* how this iteration's latest viewer exchange ended
    received,       \* do_training and keep_alive of the latest message received
    input,          \* _gumbel_sigmoid: the tensor of logits, [shape, data]
    temperature,    \* _gumbel_sigmoid: temperature
    hard,           \* _gumbel_sigmoid: hard
    gumbel_noise,   \* _gumbel_sigmoid: the noise sampled for each element
    ret,            \* _gumbel_sigmoid: what the call produced
    error           \* exception that ended the run, "none" otherwise

vars == <<opt, scene, prune, dataset, pipe, checkpoint_iterations, first_iter,
          iteration, pc, conn, viewpoint_stack, picked, viewpoint_cam, points,
          grad_sum, count, max_radii2D, opacity_activation,
          inverse_opacity_activation, gaussians_use_mask, active_sh_degree,
          size_threshold, last_render, optimizer_steps, grads, calls, stdout,
          saved, resets, exchange, received, input, temperature, hard,
          gumbel_noise, ret, error>>

config == <<opt, dataset, checkpoint_iterations, first_iter>>
viewer == <<conn, pipe, scene, exchange, received>>
history == <<stdout, saved, resets>>
model_arrays == <<points, grad_sum, count, max_radii2D>>
gate == <<opacity_activation, inverse_opacity_activation>>
gumbel == <<input, temperature, hard, gumbel_noise, ret>>

----------------------------------------------------------------------------
(* Bounds of the model                                                     *)

MaxIter == 4        \* opt.iterations
MaxPoints == 2      \* largest point count
MaxAccum == 2       \* largest per-point sample count that is accumulated
NumCameras == 2     \* training cameras of the largest scene
MaxClients == 1     \* viewer connections offered during a run
MaxNumel == 2       \* elements of the largest tensor given to the gate
MaxLogit == 1       \* largest magnitude of a logit
MaxNoise == 1       \* largest magnitude of a noise sample

(* Program constants                                                       *)

SHInterval == 1000
SizeThreshold == 20
MaxSHDegree == 3

None == <<>>

Zeros(n) == [i \in 1..n |-> 0]

Max(a, b) == IF a >= b THEN a ELSE b

Contains(list, x) == \E k \in 1..Len(list) : list[k] = x

Count(list, x) == Cardinality({k \in 1..Len(list) : list[k] = x})

Remove(list, k) == [j \in 1..(Len(list) - 1) |-> IF j < k THEN list[j] ELSE list[j + 1]]

(* the entries of an array at the kept indices, in order: tensor[mask]     *)
RECURSIVE Select(_, _, _)
Select(array, keep, k) ==
    IF k > Len(array) THEN <<>>
    ELSE IF k \in keep THEN <<array[k]>> \o Select(array, keep, k + 1)
    ELSE Select(array, keep, k + 1)

----------------------------------------------------------------------------
(* Parameter groups, arguments/__init__.py.  A declared field is the pair   *)
(* of its prefix ("_" for a field with a shorthand) and its name.           *)

Plain(names) == {<<"", n>> : n \in names}

Short(names) == {<<"_", n>> : n \in names}

(* arguments/__init__.py:57-80 *)
ModelParams ==
    Plain({"sh_degree", "opacity_activation", "data_device", "eval",
           "log_interval", "use_wandb", "wandb_project", "wandb_entity",
           "wandb_run_name", "wandb_group", "wandb_mode", "wandb_log_images",
           "wandb_tags", "testing_interval"})
    \cup Short({"source_path", "model_path", "images", "resolution",
                "white_background"})

(* arguments/__init__.py:88-93 *)
PipelineParams == Plain({"convert_SHs_python", "compute_cov3D_python", "debug"})

(* arguments/__init__.py:96-117 *)
OptimizationParams ==
    Plain({"iterations", "position_lr_init", "position_lr_final",
           "position_lr_delay_mult", "position_lr_max_steps", "feature_lr",
           "opacity_lr", "mask_lr", "scaling_lr", "rotation_lr",
           "percent_dense", "lambda_dssim", "densification_interval",
           "opacity_reset_interval", "densify_from_iter", "densify_until_iter",
           "densify_grad_threshold", "use_amp", "random_background"})

(* arguments/__init__.py:119-127 *)
PruneParams ==
    Plain({"prune_iterations", "prune_percent", "v_pow", "prune_decay",
           "use_mask", "mask_activation"})

(* arguments/__init__.py:24-46, the option a group adds for a declared field *)
AddArgument(field) == field[2]

(* train.py:232-250, the names of the parsed argument namespace             *)
Args ==
    {AddArgument(f) : f \in ModelParams \cup OptimizationParams
                              \cup PipelineParams \cup PruneParams}
    \cup {"config", "ip", "port", "debug_from", "detect_anomaly",
          "test_iterations", "save_iterations", "quiet",
          "checkpoint_iterations", "start_checkpoint", "skip_train",
          "skip_test", "retest"}

(* arguments/__init__.py:48-54, the attributes of the extracted group       *)
Extract(group, args) ==
    {a \in args : <<"", a>> \in group \/ <<"_", a>> \in group}

(* the attributes training() reads from its records, train.py:56-191        *)
OptReads ==
    {"iterations", "random_background", "densify_until_iter", "lambda_dssim",
     "densification_interval", "densify_from_iter", "opacity_reset_interval",
     "densify_grad_threshold", "switch_iteration", "use_gumbel_in_finetune",
     "use_sigmoid_final"}

PruneReads == {"use_mask", "prune_iterations"}

DatasetReads == {"white_background", "source_path"}

(* train.py:177 and 185, the fields of the activation switches              *)
GateFieldNames == {"switch_iteration", "use_gumbel_in_finetune", "use_sigmoid_final"}

----------------------------------------------------------------------------
(* Configurations.  opt is the object training() receives.  has_gate_fields *)
(* tells whether it carries switch_iteration, use_gumbel_in_finetune and   *)
(* use_sigmoid_final, which train.py reads and OptimizationParams does not  *)
(* declare; the three values are placeholders when it is FALSE.            *)

GateFields ==
    [has_gate_fields : {TRUE}, switch_iteration : 2..MaxIter,
     use_gumbel_in_finetune : BOOLEAN, use_sigmoid_final : BOOLEAN]
    \cup
    [has_gate_fields : {FALSE}, switch_iteration : {0},
     use_gumbel_in_finetune : {FALSE}, use_sigmoid_final : {FALSE}]

GateOff ==
    [has_gate_fields |-> TRUE, switch_iteration |-> 0,
     use_gumbel_in_finetune |-> FALSE, use_sigmoid_final |-> FALSE]

Schedule(from, until, dint, rint) ==
    [iterations |-> MaxIter, densify_from_iter |-> from,
     densify_until_iter |-> until, densification_interval |-> dint,
     opacity_reset_interval |-> rint]

Run(o, g, d, p, c, s) ==
    [opt |-> [iterations |-> o.iterations,
              densify_from_iter |-> o.densify_from_iter,
              densify_until_iter |-> o.densify_until_iter,
              densification_interval |-> o.densification_interval,
              opacity_reset_interval |-> o.opacity_reset_interval,
              has_gate_fields |-> g.has_gate_fields,
              switch_iteration |-> g.switch_iteration,
              use_gumbel_in_finetune |-> g.use_gumbel_in_finetune,
              use_sigmoid_final |-> g.use_sigmoid_final],
     dataset |-> d, prune |-> p, checkpoint_iterations |-> c.saves,
     first_iter |-> c.resume, scene |-> s]

Datasets == [white_background : BOOLEAN,
             opacity_activation : {"gumble_sigmoid", "sigmoid"}]

DatasetDefault == [white_background |-> FALSE, opacity_activation |-> "gumble_sigmoid"]

PruneRecords == {[prune_iterations |-> <<2>>, use_mask |-> FALSE],
                 [prune_iterations |-> <<2>>, use_mask |-> TRUE],
                 [prune_iterations |-> <<1, 3>>, use_mask |-> TRUE]}

Checkpoints == {[saves |-> <<>>, resume |-> 0],
                [saves |-> <<2>>, resume |-> 0],
                [saves |-> <<3>>, resume |-> 2]}

NoCheckpoint == [saves |-> <<>>, resume |-> 0]

SceneSmall == [cameras |-> 1, clients |-> 0]

(* runs that vary the gate schedule, the mask prune and the checkpoints    *)
GateRuns ==
    {Run(Schedule(0, until, 1, 2), g, d, p, c, SceneSmall) :
        until \in 2..3, g \in GateFields,
        d \in {x \in Datasets : ~x.white_background},
        p \in PruneRecords, c \in Checkpoints}

(* runs that vary the densification window and the opacity reset           *)
DensifyRuns ==
    {Run(Schedule(from, until, dint, rint), GateOff, d, p, NoCheckpoint, SceneSmall) :
        from \in 0..2, until \in 1..(MaxIter + 1), dint \in 1..2, rint \in 1..3,
        d \in {x \in Datasets : x.opacity_activation = "gumble_sigmoid"},
        p \in {x \in PruneRecords : Len(x.prune_iterations) = 1}}

(* runs with a viewer and with several cameras                             *)
ViewerRuns ==
    {Run(Schedule(0, 2, 1, 2), GateOff, DatasetDefault, p, NoCheckpoint,
         [cameras |-> n, clients |-> k]) :
        p \in PruneRecords, n \in 1..NumCameras, k \in 0..MaxClients}

Runs == GateRuns \cup DensifyRuns \cup ViewerRuns

----------------------------------------------------------------------------
(* State after the set-up of training(), train.py:57-77                    *)


(* the loop started at the iteration of the checkpoint itself               *)
FirstIteration_Same(k) == k

(* train.py:76, the first iteration of a run whose start checkpoint holds k *)
FirstIteration(k) == k + 1

(* train.py:84, the flags of the wait loop before a message has been read   *)
NoMessage == [got |-> FALSE, do_training |-> FALSE, keep_alive |-> FALSE]

ConfiguredActivation(d) ==
    IF d.opacity_activation = "gumble_sigmoid" THEN "gumbel_sigmoid" ELSE "sigmoid"

NotCalled == [status |-> "none", data |-> <<>>, grad |-> "none"]

(* no call of the gate is being followed                                    *)
GateIdle ==
    /\ input = [shape |-> <<1>>, data |-> <<0>>]
    /\ temperature = 1
    /\ hard = FALSE
    /\ gumbel_noise = <<0>>
    /\ ret = NotCalled

InitRun(r, n) ==
        /\ opt = r.opt
        /\ scene = r.scene
        /\ prune = r.prune
        /\ dataset = r.dataset
        /\ checkpoint_iterations = r.checkpoint_iterations
        /\ first_iter = r.first_iter
        /\ pipe = [convert_SHs_python |-> FALSE, compute_cov3D_python |-> FALSE]
        /\ iteration = FirstIteration(r.first_iter)
        /\ pc = "connect"
        /\ conn = FALSE
        /\ viewpoint_stack = None
        /\ viewpoint_cam = 0
        /\ picked = <<>>
        /\ points = n
        /\ grad_sum = Zeros(n)
        /\ count = Zeros(n)
        /\ max_radii2D = Zeros(n)
        /\ opacity_activation \in
              IF r.first_iter = 0 THEN {ConfiguredActivation(r.dataset)}
              ELSE {"gumbel_sigmoid", "sigmoid"}
        /\ inverse_opacity_activation = "configured"
        /\ gaussians_use_mask = r.prune.use_mask
        /\ active_sh_degree = 0
        /\ size_threshold = None
        /\ last_render = [by |-> "none", use_mask |-> FALSE, activation |-> "none"]
        /\ optimizer_steps = 0
        /\ grads = FALSE
        /\ calls = <<>>
        /\ stdout = <<>>
        /\ saved = <<>>
        /\ resets = <<>>
        /\ exchange = "none"
        /\ received = NoMessage
        /\ error = "none"

Init == \E r \in Runs, n \in 1..MaxPoints : InitRun(r, n) /\ GateIdle

Call(name) == calls' = Append(calls, name)


(* the loop body with the optimizer step placed before the mask prune       *)
Following_StepFirst(p) ==
    CASE p = "connect" -> "viewer"
      [] p = "viewer" -> "schedule"
      [] p = "schedule" -> "pick"
      [] p = "pick" -> "freeze"
      [] p = "freeze" -> "render"
      [] p = "render" -> "loss"
      [] p = "loss" -> "report"
      [] p = "report" -> "stats"
      [] p = "stats" -> "densify"
      [] p = "densify" -> "reset"
      [] p = "reset" -> "step"
      [] p = "step" -> "prune"
      [] p = "prune" -> "switch"
      [] p = "switch" -> "final"
      [] p = "final" -> "checkpoint"
      [] p = "checkpoint" -> "end"

(* the loop body with the sigmoid of the boundary placed before the switch  *)
Following_FinalFirst(p) ==
    CASE p = "connect" -> "viewer"
      [] p = "viewer" -> "schedule"
      [] p = "schedule" -> "pick"
      [] p = "pick" -> "freeze"
      [] p = "freeze" -> "render"
      [] p = "render" -> "loss"
      [] p = "loss" -> "report"
      [] p = "report" -> "stats"
      [] p = "stats" -> "densify"
      [] p = "densify" -> "reset"
      [] p = "reset" -> "prune"
      [] p = "prune" -> "step"
      [] p = "step" -> "final"
      [] p = "final" -> "switch"
      [] p = "switch" -> "checkpoint"
      [] p = "checkpoint" -> "end"

(* the order of the statements of the loop body, train.py:78-191: the step  *)
(* that follows step p when p falls through                                 *)
Following(p) ==
    CASE p = "connect" -> "viewer"
      [] p = "viewer" -> "schedule"
      [] p = "schedule" -> "pick"
      [] p = "pick" -> "freeze"
      [] p = "freeze" -> "render"
      [] p = "render" -> "loss"
      [] p = "loss" -> "report"
      [] p = "report" -> "stats"
      [] p = "stats" -> "densify"
      [] p = "densify" -> "reset"
      [] p = "reset" -> "prune"
      [] p = "prune" -> "step"
      [] p = "step" -> "switch"
      [] p = "switch" -> "final"
      [] p = "final" -> "checkpoint"
      [] p = "checkpoint" -> "end"

Raise(e) == pc' = "aborted" /\ error' = e

----------------------------------------------------------------------------
(* Viewer bridge, train.py:79-92                                           *)

Messages ==
    [custom_cam : BOOLEAN, do_training : BOOLEAN, keep_alive : BOOLEAN,
     convert_SHs_python : BOOLEAN, compute_cov3D_python : {FALSE}]

Failures == {"none", "receive", "render", "send"}


(* the wait loop left by every message that asks for training               *)
LeavesWaitLoop_Resume(m, i) == m.do_training

(* train.py:89, the condition that leaves the wait loop                     *)
LeavesWaitLoop(m, i) ==
    m.do_training /\ ((i < opt.iterations) \/ ~m.keep_alive)


(* no handler: the exception of the exchange leaves training()              *)
OnViewerException_Propagates ==
    /\ Raise("viewer error")
    /\ UNCHANGED conn

(* train.py:91-92, the handler of a failed exchange                         *)
OnViewerException ==
    /\ conn' = FALSE
    /\ pc' = "viewer"
    /\ UNCHANGED error

(* train.py:79-80 *)
TryConnect ==
    /\ pc = "connect"
    /\ \/ /\ ~conn
          /\ scene.clients > 0
          /\ conn' = TRUE
          /\ scene' = [scene EXCEPT !.clients = @ - 1]
       \/ UNCHANGED <<conn, scene>>
    /\ pc' = Following("connect")
    /\ exchange' = "none"
    /\ received' = NoMessage
    /\ UNCHANGED <<config, gumbel, prune, pipe, iteration, viewpoint_stack, picked,
                   viewpoint_cam, model_arrays, gate, gaussians_use_mask,
                   active_sh_degree, size_threshold, last_render,
                   optimizer_steps, grads, calls, history, error>>

(* train.py:81-92, one pass of the wait loop *)
ViewerExchange ==
    /\ pc = "viewer"
    /\ conn
    /\ \E m \in Messages, f \in Failures :
        /\ (f = "render") => m.custom_cam
        /\ pipe' = IF f = "receive" THEN pipe
                   ELSE [convert_SHs_python |-> m.convert_SHs_python,
                         compute_cov3D_python |-> m.compute_cov3D_python]
        /\ last_render' =
              IF f \in {"none", "send"} /\ m.custom_cam
              THEN [by |-> "viewer", use_mask |-> prune.use_mask,
                    activation |-> opacity_activation]
              ELSE last_render
        /\ exchange' = IF f = "none" THEN "answered" ELSE f
        /\ received' = IF f = "receive" THEN received
                       ELSE [got |-> TRUE, do_training |-> m.do_training,
                             keep_alive |-> m.keep_alive]
        /\ IF f # "none" THEN OnViewerException
           ELSE /\ pc' = IF LeavesWaitLoop(m, iteration) THEN Following("viewer") ELSE "viewer"
                /\ UNCHANGED <<conn, error>>
    /\ UNCHANGED <<config, gumbel, scene, prune, iteration, viewpoint_stack, picked,
                   viewpoint_cam, model_arrays, gate, gaussians_use_mask,
                   active_sh_degree, size_threshold, optimizer_steps, grads,
                   calls, history>>

(* train.py:81, the loop condition is false *)
ViewerAbsent ==
    /\ pc = "viewer"
    /\ ~conn
    /\ pc' = Following("viewer")
    /\ UNCHANGED <<config, gumbel, viewer, prune, iteration, viewpoint_stack, picked,
                   viewpoint_cam, model_arrays, gate, gaussians_use_mask,
                   active_sh_degree, size_threshold, last_render,
                   optimizer_steps, grads, calls, history, error>>

----------------------------------------------------------------------------
(* Forward pass, train.py:94-123                                           *)

(* train.py:96-100 *)
UpdateLearningRate ==
    /\ pc = "schedule"
    /\ IF iteration % SHInterval = 0
       THEN /\ active_sh_degree' =
                 IF active_sh_degree < MaxSHDegree THEN active_sh_degree + 1
                 ELSE active_sh_degree
            /\ calls' = calls \o <<"update_learning_rate", "oneupSHdegree">>
       ELSE /\ Call("update_learning_rate")
            /\ UNCHANGED active_sh_degree
    /\ pc' = Following("schedule")
    /\ UNCHANGED <<config, gumbel, viewer, prune, iteration, viewpoint_stack, picked,
                   viewpoint_cam, model_arrays, gate, gaussians_use_mask,
                   size_threshold, last_render, optimizer_steps, grads,
                   history, error>>

TrainCameras == [k \in 1..scene.cameras |-> k]


(* the working list taken afresh in every iteration                         *)
WorkingStack_Fresh == TrainCameras

(* train.py:103-104, the working list when the pick is made                 *)
WorkingStack == IF viewpoint_stack = <<>> THEN TrainCameras ELSE viewpoint_stack

(* train.py:103-105 *)
PickCamera ==
    /\ pc = "pick"
    /\ \E k \in 1..Len(WorkingStack) :
        /\ viewpoint_cam' = WorkingStack[k]
        /\ viewpoint_stack' = Remove(WorkingStack, k)
        /\ picked' = IF viewpoint_stack = <<>> THEN <<WorkingStack[k]>>
                     ELSE Append(picked, WorkingStack[k])
    /\ Call("pick_camera")
    /\ pc' = Following("pick")
    /\ UNCHANGED <<config, gumbel, viewer, prune, iteration, model_arrays, gate,
                   gaussians_use_mask, active_sh_degree, size_threshold,
                   last_render, optimizer_steps, grads, history, error>>


(* the freeze one iteration early, at the boundary itself                   *)
FreezeDue_AtBoundary(i) == i = opt.densify_until_iter

(* train.py:113 *)
FreezeDue(i) == i = opt.densify_until_iter + 1

(* train.py:113-115 *)
FreezeActivation ==
    /\ pc = "freeze"
    /\ IF FreezeDue(iteration)
       THEN /\ calls' = calls \o <<"set_trainable_mask", "set_activation_sigmoid">>
            /\ opacity_activation' = "sigmoid"
       ELSE UNCHANGED <<calls, opacity_activation>>
    /\ pc' = Following("freeze")
    /\ UNCHANGED <<config, gumbel, viewer, prune, iteration, viewpoint_stack, picked,
                   viewpoint_cam, model_arrays, inverse_opacity_activation,
                   gaussians_use_mask, active_sh_degree, size_threshold,
                   last_render, optimizer_steps, grads, history, error>>


(* the mask argument taken from the model's flag as configured              *)
RenderUsesMask_Configured(i) == (i > opt.densify_until_iter) /\ Len(prune.prune_iterations) > 0

(* train.py:116, the mask argument of the training render                  *)
RenderUsesMask(i) == (i > opt.densify_until_iter) /\ prune.use_mask

(* train.py:116-117 *)
Render ==
    /\ pc = "render"
    /\ last_render' = [by |-> "train", use_mask |-> RenderUsesMask(iteration),
                       activation |-> opacity_activation]
    /\ Call("render")
    /\ pc' = Following("render")
    /\ UNCHANGED <<config, gumbel, viewer, prune, iteration, viewpoint_stack, picked,
                   viewpoint_cam, model_arrays, gate, gaussians_use_mask,
                   active_sh_degree, size_threshold, optimizer_steps, grads,
                   history, error>>

(* train.py:120-123 *)
LossBackward ==
    /\ pc = "loss"
    /\ grads' = TRUE
    /\ Call("backward")
    /\ pc' = Following("loss")
    /\ UNCHANGED <<config, gumbel, viewer, prune, iteration, viewpoint_stack, picked,
                   viewpoint_cam, model_arrays, gate, gaussians_use_mask,
                   active_sh_degree, size_threshold, last_render,
                   optimizer_steps, history, error>>

(* train.py:138-148, the sparsity of the mask is logged while it is in use *)
Report ==
    /\ pc = "report"
    /\ IF prune.use_mask THEN calls' = calls \o <<"get_mask", "training_report">>
       ELSE Call("training_report")
    /\ pc' = Following("report")
    /\ UNCHANGED <<config, gumbel, viewer, prune, iteration, viewpoint_stack, picked,
                   viewpoint_cam, model_arrays, gate, gaussians_use_mask,
                   active_sh_degree, size_threshold, last_render,
                   optimizer_steps, grads, history, error>>

----------------------------------------------------------------------------
(* The Gaussian model's mutations.  Their code is outside src/; these      *)
(* follow sections 3, 4.3, 4.4 and 7 of the specification.                 *)


(* an accumulator update that keeps the visible points only                 *)
AddDensificationStats_DropsUnseen(visible) ==
    /\ points' = Cardinality(visible)
    /\ grad_sum' = Select(grad_sum, visible, 1)
    /\ count' = Select(count, visible, 1)
    /\ max_radii2D' = Select(max_radii2D, visible, 1)

(* add_densification_stats and the max-radius update for the visible points *)
AddDensificationStats(visible) ==
    /\ grad_sum' = [k \in 1..points |-> IF k \in visible THEN grad_sum[k] + 1 ELSE grad_sum[k]]
    /\ count' = [k \in 1..points |-> IF k \in visible THEN count[k] + 1 ELSE count[k]]
    /\ max_radii2D' = [k \in 1..points |-> IF k \in visible THEN Max(max_radii2D[k], 1) ELSE max_radii2D[k]]
    /\ UNCHANGED points


(* densify_and_prune that leaves the accumulators as they were              *)
DensifyAndPrune_KeepsStats(n) ==
    /\ points' = n
    /\ UNCHANGED <<grad_sum, count, max_radii2D>>

(* densify_and_prune leaving n points: the accumulators are rebuilt as zeros *)
DensifyAndPrune(n) ==
    /\ points' = n
    /\ grad_sum' = Zeros(n)
    /\ count' = Zeros(n)
    /\ max_radii2D' = Zeros(n)

(* prune_points keeping the points of `keep`: every array is filtered       *)
PrunePoints(keep) ==
    /\ points' = Cardinality(keep)
    /\ grad_sum' = Select(grad_sum, keep, 1)
    /\ count' = Select(count, keep, 1)
    /\ max_radii2D' = Select(max_radii2D, keep, 1)


(* no check of the resulting point count                                    *)
LeavesNoPoint_Unchecked(n) == FALSE

(* a mutation that would leave no point is fatal                            *)
LeavesNoPoint(n) == n = 0

----------------------------------------------------------------------------
(* Densification, mask prune and optimizer step, train.py:150-175          *)


(* the phase with the boundary iteration included                           *)
InDensifyPhase_Inclusive(i) == i <= opt.densify_until_iter

(* train.py:151 *)
InDensifyPhase(i) == i < opt.densify_until_iter


(* the window test with its lower bound made inclusive                      *)
DensifyDue_Inclusive(i) == i >= opt.densify_from_iter /\ i % opt.densification_interval = 0

(* train.py:156 *)
DensifyDue(i) == i > opt.densify_from_iter /\ i % opt.densification_interval = 0


(* the threshold supplied as soon as any opacity reset has been made        *)
SizeThresholdAt_AfterReset(i) == IF Len(resets) > 0 THEN <<SizeThreshold>> ELSE None

(* train.py:157 *)
SizeThresholdAt(i) == IF i > opt.opacity_reset_interval THEN <<SizeThreshold>> ELSE None


(* the reset test without the white-background trigger                      *)
ResetDue_IntervalOnly(i) == i % opt.opacity_reset_interval = 0

(* train.py:160 *)
ResetDue(i) ==
    \/ i % opt.opacity_reset_interval = 0
    \/ (dataset.white_background /\ i = opt.densify_from_iter)


(* the membership test without the flag                                     *)
MaskPruneDue_NoFlag(i) == Contains(prune.prune_iterations, i)

(* train.py:164-165 *)
MaskPruneDue(i) == Contains(prune.prune_iterations, i) /\ prune.use_mask


(* the step taken in the last iteration as well                             *)
StepDue_Inclusive(i) == i <= opt.iterations

(* train.py:173 *)
StepDue(i) == i < opt.iterations

(* train.py:151-154 *)
AccumulateStats ==
    /\ pc = "stats"
    /\ IF InDensifyPhase(iteration)
       THEN /\ \E visible \in SUBSET (1..points) :
                 /\ \A k \in visible : count[k] < MaxAccum
                 /\ AddDensificationStats(visible)
            /\ Call("add_densification_stats")
            /\ pc' = Following("stats")
       ELSE /\ pc' = Following("reset")
            /\ UNCHANGED <<model_arrays, calls>>
    /\ UNCHANGED <<config, gumbel, viewer, prune, iteration, viewpoint_stack, picked,
                   viewpoint_cam, gate, gaussians_use_mask, active_sh_degree,
                   size_threshold, last_render, optimizer_steps, grads,
                   history, error>>

(* train.py:156-158 *)
Densify ==
    /\ pc = "densify"
    /\ IF DensifyDue(iteration)
       THEN /\ size_threshold' = SizeThresholdAt(iteration)
            /\ Call("densify_and_prune")
            /\ \E n \in 0..MaxPoints :
                 IF LeavesNoPoint(n)
                 THEN Raise("empty point set") /\ UNCHANGED model_arrays
                 ELSE DensifyAndPrune(n) /\ pc' = Following("densify") /\ UNCHANGED error
       ELSE /\ pc' = Following("densify")
            /\ UNCHANGED <<model_arrays, size_threshold, calls, error>>
    /\ UNCHANGED <<config, gumbel, viewer, prune, iteration, viewpoint_stack, picked,
                   viewpoint_cam, gate, gaussians_use_mask, active_sh_degree,
                   last_render, optimizer_steps, grads, history>>

(* train.py:160-161 *)
ResetOpacity ==
    /\ pc = "reset"
    /\ IF ResetDue(iteration)
       THEN Call("reset_opacity") /\ resets' = Append(resets, iteration)
       ELSE UNCHANGED <<calls, resets>>
    /\ pc' = Following("reset")
    /\ UNCHANGED <<config, gumbel, viewer, prune, iteration, viewpoint_stack, picked,
                   viewpoint_cam, model_arrays, gate, gaussians_use_mask,
                   active_sh_degree, size_threshold, last_render,
                   optimizer_steps, grads, stdout, saved, error>>

(* train.py:164-170 *)
MaskPrune ==
    /\ pc = "prune"
    /\ IF MaskPruneDue(iteration)
       THEN /\ stdout' = Append(stdout, <<"prune using mask at ", iteration>>)
            /\ calls' = calls \o <<"get_mask", "prune_points">>
            /\ \E keep \in SUBSET (1..points) :
                 IF LeavesNoPoint(Cardinality(keep))
                 THEN /\ Raise("empty point set")
                      /\ UNCHANGED <<model_arrays, prune, gaussians_use_mask>>
                 ELSE /\ PrunePoints(keep)
                      /\ prune' = [prune EXCEPT !.use_mask = FALSE]
                      /\ gaussians_use_mask' = FALSE
                      /\ pc' = Following("prune")
                      /\ UNCHANGED error
       ELSE /\ pc' = Following("prune")
            /\ UNCHANGED <<model_arrays, prune, gaussians_use_mask, calls,
                           stdout, error>>
    /\ UNCHANGED <<config, gumbel, viewer, iteration, viewpoint_stack, picked, viewpoint_cam,
                   gate, active_sh_degree, size_threshold, last_render,
                   optimizer_steps, grads, saved, resets>>

(* train.py:173-175 *)
OptimizerStep ==
    /\ pc = "step"
    /\ IF StepDue(iteration)
       THEN /\ optimizer_steps' = optimizer_steps + 1
            /\ grads' = FALSE
            /\ calls' = calls \o <<"optimizer_step", "zero_grad">>
       ELSE UNCHANGED <<optimizer_steps, grads, calls>>
    /\ pc' = Following("step")
    /\ UNCHANGED <<config, gumbel, viewer, prune, iteration, viewpoint_stack, picked,
                   viewpoint_cam, model_arrays, gate, gaussians_use_mask,
                   active_sh_degree, size_threshold, last_render, history,
                   error>>

----------------------------------------------------------------------------
(* Activation switches and checkpoint, train.py:177-191                    *)


(* the switch test as an inequality                                         *)
SwitchDue_From(i) == opt.switch_iteration <= i /\ opt.use_gumbel_in_finetune

(* train.py:177 *)
SwitchDue(i) == opt.switch_iteration = i /\ opt.use_gumbel_in_finetune

(* train.py:182, the activation the switch installs                         *)
SwitchedActivation == "gumbel_sigmoid"

(* train.py:185 *)
FinalDue(i) == opt.use_sigmoid_final /\ i = opt.densify_until_iter

(* train.py:189 *)
CheckpointDue(i) == Contains(checkpoint_iterations, i)

(* utils/prune_utils.py:31-37, the activation adds sampled noise to the logit *)
DrawsNoise(activation) == activation = "gumbel_sigmoid"

(* train.py:177-182; reading a field opt does not carry raises              *)
GateSwitch ==
    /\ pc = "switch"
    /\ IF ~opt.has_gate_fields
       THEN /\ Raise("AttributeError")
            /\ UNCHANGED <<opacity_activation, stdout, calls>>
       ELSE /\ IF SwitchDue(iteration)
               THEN /\ stdout' = Append(stdout, <<"Switch to Gumbel Sigmoid at iter: ", iteration>>)
                    /\ opacity_activation' = SwitchedActivation
                    /\ Call("set_activation_gumbel")
               ELSE UNCHANGED <<opacity_activation, stdout, calls>>
            /\ pc' = Following("switch")
            /\ UNCHANGED error
    /\ UNCHANGED <<config, gumbel, viewer, prune, iteration, viewpoint_stack, picked,
                   viewpoint_cam, model_arrays, inverse_opacity_activation,
                   gaussians_use_mask, active_sh_degree, size_threshold,
                   last_render, optimizer_steps, grads, saved, resets>>

(* train.py:185-187 *)
SigmoidFinal ==
    /\ pc = "final"
    /\ IF FinalDue(iteration)
       THEN /\ opacity_activation' = "sigmoid"
            /\ inverse_opacity_activation' = "inverse_sigmoid"
            /\ Call("set_activation_sigmoid")
       ELSE UNCHANGED <<gate, calls>>
    /\ pc' = Following("final")
    /\ UNCHANGED <<config, gumbel, viewer, prune, iteration, viewpoint_stack, picked,
                   viewpoint_cam, model_arrays, gaussians_use_mask,
                   active_sh_degree, size_threshold, last_render,
                   optimizer_steps, grads, history, error>>

(* train.py:189-191 *)
Checkpoint ==
    /\ pc = "checkpoint"
    /\ IF CheckpointDue(iteration)
       THEN /\ stdout' = Append(stdout, <<"Saving Checkpoint", iteration>>)
            /\ saved' = Append(saved, <<iteration, points>>)
            /\ Call("save_checkpoint")
       ELSE UNCHANGED <<stdout, saved, calls>>
    /\ pc' = Following("checkpoint")
    /\ UNCHANGED <<config, gumbel, viewer, prune, iteration, viewpoint_stack, picked,
                   viewpoint_cam, model_arrays, gate, gaussians_use_mask,
                   active_sh_degree, size_threshold, last_render,
                   optimizer_steps, grads, resets, error>>

(* train.py:78, the loop takes the next iteration or ends                   *)
LoopNext ==
    /\ pc = "end"
    /\ IF iteration < opt.iterations
       THEN iteration' = iteration + 1 /\ pc' = "connect" /\ calls' = <<>>
       ELSE pc' = "done" /\ UNCHANGED <<iteration, calls>>
    /\ UNCHANGED <<config, gumbel, viewer, prune, viewpoint_stack, picked, viewpoint_cam,
                   model_arrays, gate, gaussians_use_mask, active_sh_degree,
                   size_threshold, last_render, optimizer_steps, grads,
                   history, error>>

Next ==
    \/ TryConnect
    \/ ViewerExchange
    \/ ViewerAbsent
    \/ UpdateLearningRate
    \/ PickCamera
    \/ FreezeActivation
    \/ Render
    \/ LossBackward
    \/ Report
    \/ AccumulateStats
    \/ Densify
    \/ ResetOpacity
    \/ MaskPrune
    \/ OptimizerStep
    \/ GateSwitch
    \/ SigmoidFinal
    \/ Checkpoint
    \/ LoopNext

Spec == Init /\ [][Next]_vars

----------------------------------------------------------------------------
(* The gate, utils/prune_utils.py:3-47.  A tensor is its shape and its      *)
(* elements in row-major order; a logit and a noise sample are integers,    *)
(* the relaxed value is in hundredths.                                      *)

Numel(shape) == IF Len(shape) = 1 THEN shape[1] ELSE shape[1] * shape[2]

Shapes ==
    {<<n>> : n \in 1..MaxNumel}
    \cup {s \in {<<n, m>> : n, m \in 1..MaxNumel} : Numel(s) <= MaxNumel}

Tensors ==
    UNION {[shape : {s}, data : [1..Numel(s) -> (-MaxLogit)..MaxLogit]] : s \in Shapes}

(* torch.sigmoid of h halves, in hundredths                                 *)
RECURSIVE Sigmoid(_)
Sigmoid(h) ==
    IF h > 0 THEN 100 - Sigmoid(-h)
    ELSE CASE h = 0 -> 50
           [] h = -1 -> 38
           [] h = -2 -> 27
           [] h = -3 -> 18
           [] h = -4 -> 12
           [] h = -5 -> 8
           [] h = -6 -> 5
           [] OTHER -> 2

(* prune_utils.py:37, (input + gumbel_noise)/temperature, in halves         *)
Reparam(x, g, t) == ((x + g) * 2) \div t

(* prune_utils.py:39 *)
YSoft(x, g, t) == [p \in 1..Len(x.data) |-> Sigmoid(Reparam(x.data[p], g[p], t))]

(* the index along dimension 0 of the element at row-major position p       *)
Dim0(shape, p) == IF Len(shape) = 1 THEN p ELSE ((p - 1) \div shape[2]) + 1

(* prune_utils.py:42, (y_soft > 0.5).nonzero(as_tuple=True)[0]: the indices  *)
(* along dimension 0 of the elements above the threshold, a vector           *)
RECURSIVE NonzeroDim0(_, _, _)
NonzeroDim0(y_soft, shape, p) ==
    IF p > Len(y_soft) THEN <<>>
    ELSE IF y_soft[p] > 50
         THEN <<Dim0(shape, p)>> \o NonzeroDim0(y_soft, shape, p + 1)
         ELSE NonzeroDim0(y_soft, shape, p + 1)


(* prune_utils.py:43, zeros_like(input).scatter_(-1, index, 1.0) with a      *)
(* vector of indices: nothing to do for an empty index; otherwise the index *)
(* must have as many dimensions as the tensor, and the ones are written at  *)
(* the indexed places of the last dimension                                 *)
ScatterOnes(shape, index, y_soft) ==
    IF Len(index) = 0
    THEN [status |-> "returned", data |-> [p \in 1..Numel(shape) |-> 0]]
    ELSE IF Len(shape) # 1
         THEN [status |-> "RuntimeError", data |-> <<>>]
         ELSE [status |-> "returned",
               data |-> [p \in 1..Numel(shape) |->
                           IF Contains(index, p) THEN 100 ELSE 0]]

(* prune_utils.py:37-47 *)
gumbel_sigmoid(x, g, t, h) ==
    LET y_soft == YSoft(x, g, t)
        y_hard == ScatterOnes(x.shape, NonzeroDim0(y_soft, x.shape, 1), y_soft)
    IN  IF ~h THEN [status |-> "returned", data |-> y_soft, grad |-> "y_soft"]
        ELSE IF y_hard.status # "returned"
             THEN [status |-> y_hard.status, data |-> <<>>, grad |-> "none"]
             ELSE [status |-> "returned",
                   data |-> [p \in 1..Len(y_soft) |->
                               (y_hard.data[p] - y_soft[p]) + y_soft[p]],
                   grad |-> "y_soft"]

(* one call of the gate on a tensor of logits                               *)
GateInit ==
    /\ InitRun(Run(Schedule(0, 2, 1, 2), GateOff, DatasetDefault,
                   [prune_iterations |-> <<2>>, use_mask |-> FALSE],
                   NoCheckpoint, SceneSmall), 1)
    /\ input \in Tensors
    /\ temperature \in {1, 2}
    /\ hard \in BOOLEAN
    /\ gumbel_noise \in [1..Numel(input.shape) -> (-MaxNoise)..MaxNoise]
    /\ ret = NotCalled

GumbelSigmoid ==
    /\ ret = NotCalled
    /\ ret' = gumbel_sigmoid(input, gumbel_noise, temperature, hard)
    /\ UNCHANGED <<config, viewer, prune, iteration, pc, viewpoint_stack, picked,
                   viewpoint_cam, model_arrays, gate, gaussians_use_mask,
                   active_sh_degree, size_threshold, last_render,
                   optimizer_steps, grads, calls, history, error, input,
                   temperature, hard, gumbel_noise>>

GateNext == GumbelSigmoid

GateSpec == GateInit /\ [][GateNext]_vars

(* the process keeps running: a step that can be taken is taken            *)
LiveSpec == Init /\ [][Next]_vars /\ WF_vars(Next)

----------------------------------------------------------------------------
(* Properties                                                              *)

Ran(name) == Contains(calls, name)

(* the steps of an iteration that come after train.py:158                   *)
PastDensify == {"reset", "prune", "step", "switch", "final", "checkpoint",
                "end", "done", "aborted"}

(* the steps of an iteration that come after train.py:170                   *)
PastMaskPrune == {"step", "switch", "final", "checkpoint", "end", "done"}

PruneLines == {k \in 1..Len(stdout) : stdout[k][1] = "prune using mask at "}

(* the mask prune has been run in this run                                  *)
MaskPruned == PruneLines # {}

(* C1: in every iteration densify_and_prune is called at most once, and it  *)
(* is called exactly when densify_from_iter < iteration < densify_until_iter *)
(* and iteration % densification_interval = 0.                              *)
C1_DensifyWindow ==
    /\ Count(calls, "densify_and_prune") <= 1
    /\ pc \in PastDensify =>
         (Ran("densify_and_prune") <=>
            /\ opt.densify_from_iter < iteration
            /\ iteration < opt.densify_until_iter
            /\ iteration % opt.densification_interval = 0)
    /\ pc \notin PastDensify => ~Ran("densify_and_prune")

C1_Witness ==
    /\ pc = "end"
    /\ Ran("densify_and_prune")
    /\ iteration = 2
    /\ opt.densification_interval = 2

(* C2: the mask prune runs in an iteration exactly when the iteration is in *)
(* prune_iterations and the flag is set; when it has run the flag is clear; *)
(* a clear flag is never set again; the prune runs at most once per run.    *)
C2_MaskPruneOnce ==
    [][/\ (pc = "prune" /\ pc' # "prune") =>
            /\ (calls' # calls) <=>
                 (Contains(prune.prune_iterations, iteration) /\ prune.use_mask)
            /\ (calls' # calls /\ pc' # "aborted") => ~prune'.use_mask
            /\ (calls' = calls) => prune' = prune
       /\ pc # "prune" => prune' = prune
       /\ ~prune.use_mask => ~prune'.use_mask
       /\ Cardinality({k \in 1..Len(stdout') : stdout'[k][1] = "prune using mask at "}) <= 1
      ]_vars

C2_Witness ==
    /\ pc = "step"
    /\ iteration = 3
    /\ prune.prune_iterations = <<1, 3>>
    /\ MaskPruned
    /\ ~Ran("prune_points")

(* a run started from scratch with the Gumbel gate configured               *)
StartsStochastic == first_iter = 0 /\ dataset.opacity_activation = "gumble_sigmoid"

(* the scheduled switch of train.py:177 applies in the current iteration    *)
SwitchScheduled ==
    opt.has_gate_fields /\ opt.use_gumbel_in_finetune /\ opt.switch_iteration = iteration

(* C3 as claimed: once the activation has moved from the Gumbel gate to the *)
(* sigmoid, no later step sets it back.                                     *)
C3_OneWay ==
    [][(StartsStochastic /\ opacity_activation = "sigmoid")
          => opacity_activation' = "sigmoid"]_vars

(* C3 as amended: a sigmoid activation is replaced by the Gumbel gate only  *)
(* by the scheduled switch, in the iteration equal to switch_iteration with *)
(* use_gumbel_in_finetune set; when the switch is disabled or               *)
(* switch_iteration <= densify_until_iter, a run started with the Gumbel    *)
(* gate never leaves the sigmoid again.                                     *)
C3_OneWayExceptSwitch ==
    [][/\ (opacity_activation = "sigmoid" /\ opacity_activation' # "sigmoid")
            => (pc = "switch" /\ SwitchScheduled)
       /\ (/\ StartsStochastic
           /\ opacity_activation = "sigmoid"
           /\ (~opt.use_gumbel_in_finetune
                 \/ opt.switch_iteration <= opt.densify_until_iter))
            => opacity_activation' = "sigmoid"
      ]_vars

C3_Witness ==
    /\ pc = "done"
    /\ StartsStochastic
    /\ opt.use_gumbel_in_finetune
    /\ opt.switch_iteration = opt.densify_until_iter
    /\ ~opt.use_sigmoid_final
    /\ opacity_activation = "sigmoid"

SwitchLine == "Switch to Gumbel Sigmoid at iter: "

(* C4 as claimed: the switch fires only in the iteration equal to           *)
(* switch_iteration with its flag set, and it leaves a deterministic        *)
(* sigmoid activation that draws no noise.                                  *)
C4_SwitchToSigmoid ==
    [][(pc = "switch" /\ pc' = "final") =>
          IF SwitchScheduled
          THEN opacity_activation' = "sigmoid" /\ ~DrawsNoise(opacity_activation')
          ELSE opacity_activation' = opacity_activation /\ stdout' = stdout
      ]_vars

(* C4 as amended: the switch fires only in the iteration equal to           *)
(* switch_iteration with its flag set, and it installs the Gumbel sigmoid,  *)
(* which adds sampled noise to the logit; no other step installs it.        *)
C4_SwitchToGumbel ==
    [][/\ (pc = "switch" /\ pc' = "final") =>
            IF SwitchScheduled
            THEN /\ opacity_activation' = "gumbel_sigmoid"
                 /\ DrawsNoise(opacity_activation')
                 /\ stdout' = Append(stdout, <<SwitchLine, iteration>>)
            ELSE opacity_activation' = opacity_activation /\ stdout' = stdout
       /\ (pc # "switch" /\ opacity_activation' = "gumbel_sigmoid")
            => opacity_activation = "gumbel_sigmoid"
      ]_vars

C4_Witness ==
    /\ pc = "final"
    /\ Len(stdout) > 0
    /\ stdout[Len(stdout)] = <<SwitchLine, iteration>>
    /\ dataset.opacity_activation = "sigmoid"
    /\ opacity_activation = "gumbel_sigmoid"

(* C5 as claimed: in every training render of an iteration after the mask   *)
(* prune the mask is not consulted and the opacity activation is the        *)
(* sigmoid.                                                                 *)
C5_SigmoidAfterPrune ==
    (MaskPruned /\ pc = "loss" /\ \A k \in PruneLines : stdout[k][2] < iteration)
        => (~last_render.use_mask /\ last_render.activation = "sigmoid")

(* C5 as amended: once the mask prune has run the flag stays clear, every   *)
(* later training or preview render is called without the mask, the mask is *)
(* read by no later step; the prune itself leaves the opacity activation as *)
(* it is.                                                                   *)
C5_MaskUnusedAfterPrune ==
    [][/\ MaskPruned =>
            /\ ~prune'.use_mask \/ pc' = "aborted"
            /\ pc = "render" => ~last_render'.use_mask
            /\ pc = "viewer" => (last_render' = last_render \/ ~last_render'.use_mask)
            /\ Count(calls', "get_mask") <= Count(calls, "get_mask")
       /\ pc = "prune" => opacity_activation' = opacity_activation
      ]_vars

C5_Witness ==
    /\ MaskPruned
    /\ pc = "loss"
    /\ \A k \in PruneLines : stdout[k][2] < iteration
    /\ iteration > opt.densify_until_iter
    /\ last_render.by = "train"
    /\ ~last_render.use_mask

(* the steps of an iteration that come after train.py:161                   *)
PastReset == PastMaskPrune \cup {"prune"}

WhiteResets ==
    {k \in 1..Len(resets) :
        /\ dataset.white_background
        /\ resets[k] = opt.densify_from_iter
        /\ resets[k] % opt.opacity_reset_interval # 0}

(* C6 as claimed: in every iteration 1..iterations the opacity reset is run *)
(* exactly when iteration % opacity_reset_interval = 0, or the background   *)
(* is white and iteration = densify_from_iter.                              *)
C6_ResetEveryInterval ==
    pc \in PastReset =>
        (Ran("reset_opacity") <=>
            \/ iteration % opt.opacity_reset_interval = 0
            \/ (dataset.white_background /\ iteration = opt.densify_from_iter))

(* C6 as amended: the opacity reset is run in an iteration exactly when     *)
(* iteration < densify_until_iter and either iteration %                    *)
(* opacity_reset_interval = 0 or the background is white and iteration =    *)
(* densify_from_iter; the white-background trigger fires at most once.      *)
C6_ResetInsideWindow ==
    /\ pc \in PastReset =>
        (Ran("reset_opacity") <=>
            /\ iteration < opt.densify_until_iter
            /\ \/ iteration % opt.opacity_reset_interval = 0
               \/ (dataset.white_background /\ iteration = opt.densify_from_iter))
    /\ pc \notin (PastReset \cup {"aborted"}) => ~Ran("reset_opacity")
    /\ Count(calls, "reset_opacity") <= 1
    /\ \A a, b \in 1..Len(resets) : a < b => resets[a] < resets[b]
    /\ Cardinality(WhiteResets) <= 1

C6_Witness ==
    /\ pc = "end"
    /\ Ran("reset_opacity")
    /\ WhiteResets # {}
    /\ iteration = opt.densify_from_iter

(* the position in the iteration that the claimed order gives to a call;    *)
(* 0 for the calls the order does not mention                               *)
ClaimedRank(name) ==
    CASE name = "update_learning_rate" -> 10
      [] name = "oneupSHdegree" -> 20
      [] name = "pick_camera" -> 30
      [] name = "render" -> 40
      [] name = "backward" -> 50
      [] name = "add_densification_stats" -> 60
      [] name = "densify_and_prune" -> 70
      [] name = "reset_opacity" -> 80
      [] name = "prune_points" -> 90
      [] name = "optimizer_step" -> 100
      [] name = "zero_grad" -> 110
      [] name \in {"set_trainable_mask", "set_activation_sigmoid",
                   "set_activation_gumbel"} -> 120
      [] name = "save_checkpoint" -> 130
      [] OTHER -> 0

(* the call at position k belongs to the freeze of train.py:113-115         *)
InFreeze(k) ==
    \/ calls[k] = "set_trainable_mask"
    \/ (k > 1 /\ calls[k - 1] = "set_trainable_mask" /\ calls[k] = "set_activation_sigmoid")

(* as ClaimedRank, with the freeze placed between view selection and render *)
ActualRank(k) == IF InFreeze(k) THEN 35 ELSE ClaimedRank(calls[k])

(* C7 as claimed: the calls of an iteration are made in the fixed order     *)
(* schedule, SH degree, view selection, render, backward, accumulator,      *)
(* densify, opacity reset, mask prune, optimizer step, gradient clear,      *)
(* activation changes, checkpoint; no activation change precedes the        *)
(* optimizer step.                                                          *)
C7_FixedOrder ==
    \A a, b \in 1..Len(calls) :
        (a < b /\ ClaimedRank(calls[a]) > 0 /\ ClaimedRank(calls[b]) > 0)
            => ClaimedRank(calls[a]) <= ClaimedRank(calls[b])

(* C7 as amended: the same order, except that in iteration                  *)
(* densify_until_iter + 1 the freeze (set_trainable_mask, activation :=     *)
(* sigmoid) is made between view selection and render; every change of the  *)
(* point set precedes the optimizer step; every other activation change     *)
(* follows it.                                                              *)
C7_OrderWithFreeze ==
    /\ \A a, b \in 1..Len(calls) :
         (a < b /\ ActualRank(a) > 0 /\ ActualRank(b) > 0)
             => ActualRank(a) <= ActualRank(b)
    /\ \A k \in 1..Len(calls) :
         InFreeze(k) => iteration = opt.densify_until_iter + 1
    /\ \A k \in 1..Len(calls) :
         (calls[k] \in {"densify_and_prune", "prune_points"})
             => \A j \in 1..k : calls[j] # "optimizer_step"
    /\ \A k \in 1..Len(calls) :
         (calls[k] \in {"set_activation_sigmoid", "set_activation_gumbel"} /\ ~InFreeze(k))
             => \A j \in k..Len(calls) : calls[j] \notin {"render", "optimizer_step"}

C7_Witness ==
    /\ pc = "end"
    /\ Ran("set_trainable_mask")
    /\ Ran("prune_points")
    /\ Ran("optimizer_step")
    /\ Ran("set_activation_gumbel")

(* C8: grad_sum, count and max_radii2D always have one entry per point, and *)
(* right after a densify_and_prune call grad_sum and count are all zero.    *)
C8_AccumulatorsMatchPoints ==
    /\ Len(grad_sum) = points
    /\ Len(count) = points
    /\ Len(max_radii2D) = points
    /\ (pc = "reset" /\ Ran("densify_and_prune")) =>
          \A k \in 1..points : grad_sum[k] = 0 /\ count[k] = 0

C8_Witness ==
    /\ pc = "reset"
    /\ Ran("densify_and_prune")
    /\ iteration >= 2
    /\ points = MaxPoints
    /\ count = Zeros(points)

(* C9: a mutation that would leave no point ends the run at once: the point *)
(* set is never empty, and no step is taken once the run has aborted.       *)
C9_EmptyIsFatal ==
    /\ [](points >= 1)
    /\ [](error = "empty point set" => pc = "aborted")
    /\ [][pc # "aborted"]_vars

C9_Witness ==
    /\ pc = "aborted"
    /\ error = "empty point set"
    /\ Ran("prune_points")
    /\ ~Ran("optimizer_step")

ViewerFailed == exchange \in {"receive", "render", "send"}

(* C10: an exception in a viewer exchange leaves the viewer disconnected    *)
(* and the run alive: the wait loop ends and the iteration goes on, and the *)
(* steps of the viewer bridge change neither the point set nor the          *)
(* optimizer nor the iteration counter.                                     *)
C10_ViewerFailureIsolated ==
    /\ [](ViewerFailed => (~conn /\ error # "viewer error"))
    /\ []((ViewerFailed /\ pc = "viewer") => ENABLED ViewerAbsent)
    /\ [][(pc = "connect" \/ pc = "viewer") =>
            /\ pc' \in {"viewer", "schedule"}
            /\ (UNCHANGED <<model_arrays, optimizer_steps, grads, iteration,
                            gate, prune, error>>)
       ]_vars

C10_Witness ==
    /\ ViewerFailed
    /\ exchange = "render"
    /\ pc = "end"
    /\ Ran("optimizer_step")

Terminated == pc \in {"done", "aborted"}

(* the wait loop of train.py:81 is being held by a connected viewer         *)
Waiting == pc = "viewer" /\ conn

(* the latest message read lets the wait loop end, train.py:89              *)
Released ==
    /\ received.got
    /\ received.do_training
    /\ (iteration < opt.iterations \/ ~received.keep_alive)

(* C11 as claimed: whatever the viewer sends, the wait loop is left after   *)
(* finitely many exchanges and the run reaches its last iteration and ends. *)
C11_AlwaysTerminates == <>Terminated

(* C11 as amended: the wait loop is left only when the viewer is gone (not  *)
(* connected, or an exchange failed) or by a message with do_training set   *)
(* and, in the last iteration, keep_alive clear; any other message keeps    *)
(* the run in the same iteration; a run ends unless a connected viewer      *)
(* holds it in the wait loop for ever.                                      *)
C11_WaitLoopExit ==
    /\ [][(pc = "viewer" /\ pc' # "viewer") =>
             /\ pc' = "schedule"
             /\ ~conn \/ (exchange' = "answered" /\ Released')
          ]_vars
    /\ [][(Waiting /\ exchange' = "answered" /\ ~Released') =>
             (pc' = "viewer" /\ conn' /\ iteration' = iteration)
          ]_vars
    /\ (<>Terminated \/ <>[]Waiting)

C11_Witness ==
    /\ Waiting
    /\ exchange = "answered"
    /\ iteration = opt.iterations
    /\ received.do_training
    /\ received.keep_alive
    /\ optimizer_steps = opt.iterations - 1

(* C12: a checkpoint is written as the last step of its iteration, after    *)
(* the point-set mutations, the optimizer step and the activation switches, *)
(* changes none of them and records the iteration number; a run started     *)
(* from a checkpoint of iteration k begins at k + 1 and advances by one     *)
(* up to opt.iterations, never going back and never skipping.               *)
C12_CheckpointBetweenIterations ==
    /\ iteration = first_iter + 1
    /\ [](\A k \in 1..Len(calls) : calls[k] = "save_checkpoint" => k = Len(calls))
    /\ []((pc = "end" /\ Ran("save_checkpoint")) =>
            (Len(saved) > 0 /\ saved[Len(saved)] = <<iteration, points>>))
    /\ [][saved' # saved =>
            /\ pc = "checkpoint" /\ pc' = "end"
            /\ saved' = Append(saved, <<iteration, points>>)
            /\ UNCHANGED <<model_arrays, gate, prune, optimizer_steps, iteration>>
          ]_vars
    /\ [][iteration' # iteration =>
            (pc = "end" /\ pc' = "connect" /\ iteration' = iteration + 1)]_vars
    /\ [](first_iter < iteration /\ iteration <= opt.iterations)
    /\ [](pc = "done" => iteration = opt.iterations)

C12_Witness ==
    /\ pc = "done"
    /\ first_iter = 2
    /\ saved = <<(<<3, points>>)>>
    /\ optimizer_steps = 1

(* the relaxed value of element p of the call                               *)
Relaxed(p) == Sigmoid(Reparam(input.data[p], gumbel_noise[p], temperature))

(* C13: a call with hard set returns a tensor whose element at every        *)
(* position is 1 when the relaxed value of that position is above 0.5 and   *)
(* 0 otherwise, and whose gradient is that of the relaxed value.            *)
C13_HardIsBinary ==
    (hard /\ ret # NotCalled) =>
        /\ ret.status = "returned"
        /\ Len(ret.data) = Numel(input.shape)
        /\ \A p \in 1..Len(ret.data) :
              ret.data[p] = IF Relaxed(p) > 50 THEN 100 ELSE 0
        /\ ret.grad = "y_soft"

(* for a vector of logits the call does return that tensor                  *)
C13_HardIsBinaryOnVectors ==
    (hard /\ ret # NotCalled /\ Len(input.shape) = 1) =>
        /\ ret.status = "returned"
        /\ Len(ret.data) = Numel(input.shape)
        /\ \A p \in 1..Len(ret.data) :
              ret.data[p] = IF Relaxed(p) > 50 THEN 100 ELSE 0
        /\ ret.grad = "y_soft"

C13_Witness ==
    /\ hard
    /\ input.shape = <<2, 1>>
    /\ Relaxed(1) > 50
    /\ Relaxed(2) < 50
    /\ ret.status = "RuntimeError"

(* the steps of an iteration that come after train.py:175                   *)
PastStep == {"switch", "final", "checkpoint", "end", "done"}

(* the optimizer step of this iteration, if made, is followed at once by    *)
(* the gradient clear, comes after the mask prune and before the switch     *)
StepInPlace ==
    \A k \in 1..Len(calls) :
        calls[k] = "optimizer_step" =>
            /\ k < Len(calls) /\ calls[k + 1] = "zero_grad"
            /\ \A j \in k..Len(calls) : calls[j] # "prune_points"
            /\ \A j \in 1..k : calls[j] # "set_activation_gumbel"

(* C14 as claimed: in every iteration up to opt.iterations inclusive the    *)
(* optimizer is stepped exactly once and the gradients are cleared, after   *)
(* the mask prune and before the activation switch.                         *)
C14_StepEveryIteration ==
    /\ StepInPlace
    /\ pc \in PastStep =>
          (Count(calls, "optimizer_step") = 1 /\ Count(calls, "zero_grad") = 1 /\ ~grads)

(* C14 as amended: in every iteration before opt.iterations the optimizer   *)
(* is stepped exactly once and the gradients are cleared, after the mask    *)
(* prune and before the activation switch; in iteration opt.iterations the  *)
(* optimizer is not stepped and the gradients of that iteration are kept.   *)
C14_StepExceptLast ==
    /\ StepInPlace
    /\ pc \in PastStep =>
          IF iteration < opt.iterations
          THEN Count(calls, "optimizer_step") = 1 /\ Count(calls, "zero_grad") = 1 /\ ~grads
          ELSE ~Ran("optimizer_step") /\ ~Ran("zero_grad") /\ grads
    /\ pc \notin (PastStep \cup {"aborted"}) => ~Ran("optimizer_step")
    /\ pc = "done" => optimizer_steps = opt.iterations - first_iter - 1

C14_Witness ==
    /\ pc = "done"
    /\ iteration = opt.iterations
    /\ Ran("render")
    /\ ~Ran("optimizer_step")
    /\ grads
    /\ optimizer_steps = opt.iterations - 1

(* densify_and_prune has just been called in this iteration                 *)
JustDensified == pc = "reset" /\ Ran("densify_and_prune")

(* an opacity reset was made in an earlier iteration of this run            *)
ResetEarlier == \E k \in 1..Len(resets) : resets[k] < iteration

(* C15 as claimed: a densify_and_prune call is given a size threshold       *)
(* exactly when an opacity reset has been made in an earlier iteration of   *)
(* the run.                                                                 *)
C15_ThresholdAfterAnyReset ==
    JustDensified => ((size_threshold # None) <=> ResetEarlier)

(* C15 as amended: a densify_and_prune call of iteration i is given the     *)
(* size threshold exactly when i > opacity_reset_interval, that is, in a    *)
(* run from scratch, when the reset of iteration opacity_reset_interval has *)
(* been made; a threshold is never given before some reset was made, but    *)
(* the white-background reset at densify_from_iter does not bring it.       *)
C15_ThresholdAfterInterval ==
    JustDensified =>
        /\ size_threshold =
              IF iteration > opt.opacity_reset_interval THEN <<SizeThreshold>> ELSE None
        /\ first_iter = 0 =>
              ((size_threshold # None) <=>
                  \E k \in 1..Len(resets) : resets[k] = opt.opacity_reset_interval)
        /\ first_iter = 0 => ((size_threshold # None) => ResetEarlier)

C15_Witness ==
    /\ JustDensified
    /\ dataset.white_background
    /\ resets = <<opt.densify_from_iter>>
    /\ ResetEarlier
    /\ size_threshold = None

(* the steps of an iteration that come after train.py:154                   *)
PastStats == PastReset \cup {"densify", "reset"}

(* C16 as claimed: the accumulator is updated exactly once in every         *)
(* iteration, inside the densification window or not.                       *)
C16_StatsEveryIteration ==
    pc \in PastStats => Count(calls, "add_densification_stats") = 1

(* C16 as amended: the accumulator is updated exactly once in every         *)
(* iteration with iteration < densify_until_iter and not at all in the      *)
(* iterations from densify_until_iter on, whose accumulator step leaves     *)
(* the accumulated sums and counts as they are.                             *)
C16_StatsInsideWindow ==
    /\ [](pc \in PastStats =>
            Count(calls, "add_densification_stats") =
                IF iteration < opt.densify_until_iter THEN 1 ELSE 0)
    /\ [](pc \notin (PastStats \cup {"aborted"}) => ~Ran("add_densification_stats"))
    /\ [][(pc = "stats" /\ iteration >= opt.densify_until_iter) =>
             (UNCHANGED <<model_arrays, calls>>)]_vars
    /\ [][(pc # "stats" /\ pc # "densify" /\ pc # "prune") =>
             (UNCHANGED <<grad_sum, count>>)]_vars

C16_Witness ==
    /\ pc = "end"
    /\ iteration > opt.densify_until_iter
    /\ Ran("backward")
    /\ Ran("optimizer_step")
    /\ ~Ran("add_densification_stats")
    /\ \E k \in 1..points : count[k] > 0

Elements(list) == {list[k] : k \in 1..Len(list)}

(* C17: the working list is refilled with all training cameras only when    *)
(* it is empty, every iteration takes exactly one camera out of it, and the *)
(* cameras picked since a refill are distinct and, when the list is empty   *)
(* again, are all the training cameras.                                     *)
C17_WithoutReplacement ==
    /\ [][pc = "pick" =>
             /\ Len(viewpoint_stack') =
                   (IF viewpoint_stack = <<>> THEN scene.cameras
                    ELSE Len(viewpoint_stack)) - 1
             /\ viewpoint_stack # <<>> =>
                   (/\ viewpoint_cam' \in Elements(viewpoint_stack)
                    /\ Elements(viewpoint_stack') = Elements(viewpoint_stack) \ {viewpoint_cam'}
                    /\ picked' = Append(picked, viewpoint_cam'))
             /\ viewpoint_stack = <<>> => picked' = <<viewpoint_cam'>>
          ]_vars
    /\ [][pc # "pick" => UNCHANGED <<viewpoint_stack, viewpoint_cam, picked>>]_vars
    /\ [](\A a, b \in 1..Len(picked) : a # b => picked[a] # picked[b])
    /\ [](picked # <<>> =>
            /\ Elements(picked) \cap Elements(viewpoint_stack) = {}
            /\ Elements(picked) \cup Elements(viewpoint_stack) = 1..scene.cameras
            /\ Len(picked) + Len(viewpoint_stack) = scene.cameras)

C17_Witness ==
    /\ pc = "end"
    /\ scene.cameras = NumCameras
    /\ iteration = 2 * NumCameras
    /\ viewpoint_stack = <<>>
    /\ Len(picked) = NumCameras
    /\ picked[1] = NumCameras

(* C18: the point count changes only in the densify_and_prune call of the   *)
(* densify step and in the prune_points call of the mask prune; the viewer  *)
(* exchange, the schedule, the render, the backward pass, the accumulator   *)
(* update, the opacity reset, the optimizer step, the activation switches   *)
(* and the checkpoint leave it as it is.                                    *)
C18_PointCountFrame ==
    [][/\ points' # points =>
            \/ (pc = "densify" /\ calls' = Append(calls, "densify_and_prune"))
            \/ (pc = "prune" /\ calls' = calls \o <<"get_mask", "prune_points">>)
       /\ pc \in {"connect", "viewer", "schedule", "pick", "freeze", "render",
                  "loss", "report", "stats", "reset", "step", "switch", "final",
                  "checkpoint", "end"} => points' = points
      ]_vars

C18_Witness ==
    /\ pc = "end"
    /\ Ran("add_densification_stats")
    /\ Ran("densify_and_prune")
    /\ Ran("reset_opacity")
    /\ Ran("prune_points")
    /\ Ran("optimizer_step")
    /\ points = 1
    /\ count = <<0>>

(* the mask flag the arguments of the run configure                         *)
ConfiguredUseMask == prune.use_mask \/ MaskPruned

(* the mask flag of the run from scratch at the end of iteration j: the     *)
(* loop body of train.py:164-170 applied to iterations 1..j                 *)
RECURSIVE UseMaskAfter(_)
UseMaskAfter(j) ==
    IF j = 0 THEN ConfiguredUseMask
    ELSE IF Contains(prune.prune_iterations, j) /\ UseMaskAfter(j - 1) THEN FALSE
    ELSE UseMaskAfter(j - 1)

(* the opacity activation of the run from scratch at the end of iteration   *)
(* j: train.py:113-115, 177-182 and 185-187 applied to iterations 1..j      *)
RECURSIVE ActivationAfter(_)
ActivationAfter(j) ==
    IF j = 0 THEN ConfiguredActivation(dataset)
    ELSE LET frozen == IF FreezeDue(j) THEN "sigmoid" ELSE ActivationAfter(j - 1)
             switched == IF SwitchDue(j) THEN SwitchedActivation ELSE frozen
         IN  IF FinalDue(j) THEN "sigmoid" ELSE switched

(* the run from scratch does end its iterations with these values           *)
UninterruptedMatches ==
    (first_iter = 0 /\ pc = "end") =>
        /\ prune.use_mask = UseMaskAfter(iteration)
        /\ opacity_activation = ActivationAfter(iteration)

(* the resumed run has itself assigned the activation by iteration j        *)
AssignedSinceResume(j) ==
    \E i \in (first_iter + 1)..j : FreezeDue(i) \/ SwitchDue(i) \/ FinalDue(i)

(* C19: a run resumed from the checkpoint of iteration k ends every         *)
(* iteration j > k with the mask flag that the run from scratch has at the  *)
(* end of iteration j, renders with the same mask argument, and has the     *)
(* same opacity activation wherever the training loop has assigned it since *)
(* the resume (before that it is the activation the restored model has).    *)
C19_ResumeEquivalent ==
    (first_iter > 0 /\ opt.has_gate_fields) =>
        /\ pc = "end" => prune.use_mask = UseMaskAfter(iteration)
        /\ (pc = "loss" /\ iteration > opt.densify_until_iter) =>
              last_render.use_mask = UseMaskAfter(iteration - 1)
        /\ (pc = "end" /\ AssignedSinceResume(iteration)) =>
              opacity_activation = ActivationAfter(iteration)

C19_Witness ==
    /\ first_iter = 2
    /\ opt.has_gate_fields
    /\ pc = "step"
    /\ iteration = 3
    /\ prune.prune_iterations = <<1, 3>>
    /\ last_render.by = "train"
    /\ last_render.use_mask
    /\ Ran("prune_points")

(* a run from scratch whose switch iteration is the densify-until boundary, *)
(* with the switch and the final sigmoid both enabled                       *)
BothAtBoundary ==
    /\ first_iter = 0
    /\ opt.has_gate_fields
    /\ opt.switch_iteration = opt.densify_until_iter
    /\ opt.use_gumbel_in_finetune
    /\ opt.use_sigmoid_final

(* C20: when the switch and the boundary fall in the same iteration, the    *)
(* switch is made first and the sigmoid of the boundary after it, so the    *)
(* iteration ends with the sigmoid, and every render from iteration         *)
(* densify_until_iter + 1 on uses the sigmoid.                              *)
C20_BoundaryWins ==
    BothAtBoundary =>
        /\ (iteration = opt.densify_until_iter /\ pc \in {"checkpoint", "end", "done"}) =>
              /\ opacity_activation = "sigmoid"
              /\ inverse_opacity_activation = "inverse_sigmoid"
              /\ \E a, b \in 1..Len(calls) :
                    /\ a < b
                    /\ calls[a] = "set_activation_gumbel"
                    /\ calls[b] = "set_activation_sigmoid"
        /\ (iteration > opt.densify_until_iter /\ pc = "connect") =>
              opacity_activation = "sigmoid"
        /\ (iteration > opt.densify_until_iter /\ pc = "loss") =>
              (last_render.by = "train" /\ last_render.activation = "sigmoid")
        /\ (iteration > opt.densify_until_iter /\ pc \in {"end", "done"}) =>
              opacity_activation = "sigmoid"

C20_Witness ==
    /\ BothAtBoundary
    /\ dataset.opacity_activation = "gumble_sigmoid"
    /\ iteration = opt.densify_until_iter
    /\ pc = "end"
    /\ Ran("set_activation_gumbel")
    /\ Ran("set_activation_sigmoid")
    /\ opacity_activation = "sigmoid"

(* opt is the group that train.py:266 extracts from the parsed arguments    *)
FromMain ==
    opt.has_gate_fields = (GateFieldNames \subseteq Extract(OptimizationParams, Args))

(* C21: every field the training loop reads from the optimisation, prune    *)
(* and model records is declared by its parameter group and so supplied by  *)
(* extract, and a run on the extracted records never fails on a missing     *)
(* field: it passes the activation switches of every iteration.             *)
C21_FieldsDeclared ==
    /\ PruneReads \subseteq Extract(PruneParams, Args)
    /\ DatasetReads \subseteq Extract(ModelParams, Args)
    /\ FromMain => error # "AttributeError"

(* what does hold: the prune and model records carry every field read, and  *)
(* the optimisation record every field read except the three of the         *)
(* activation switches; a run on it stops with AttributeError at the switch *)
(* test of its first iteration, after that iteration's optimizer step.      *)
C21_FailsAtSwitch ==
    /\ PruneReads \subseteq Extract(PruneParams, Args)
    /\ DatasetReads \subseteq Extract(ModelParams, Args)
    /\ OptReads \ Extract(OptimizationParams, Args) = GateFieldNames
    /\ FromMain =>
          /\ ~opt.has_gate_fields
          /\ iteration = first_iter + 1
          /\ pc \notin {"final", "checkpoint", "end", "done"}
          /\ error = "AttributeError" => (pc = "aborted" /\ Ran("backward"))
          /\ pc = "aborted" => error \in {"AttributeError", "empty point set"}

C21_Witness ==
    /\ FromMain
    /\ first_iter = 0
    /\ iteration = 1
    /\ pc = "aborted"
    /\ error = "AttributeError"
    /\ Ran("render")
    /\ Ran("optimizer_step")
    /\ optimizer_steps = 1

====
